---- MODULE Spec2Model ----
(***************************************************************************)
(* Model of the 3D viewer glue code:                                       *)
(*   - AnimationHolder / Fox   (engine/world/Fox.ts)                       *)
(*   - ThreeViewerComponent    (three-viewer.component.ts)                 *)
(* JavaScript is single threaded, so every method call is one atomic step. *)
(* The calls a method makes on collaborators (AnimationAction objects, the *)
(* Engine, the three services) are recorded, in program order, in logs.    *)
(***************************************************************************)
EXTENDS Integers, Sequences, FiniteSets, TLC

\* ------------------------------------------------------------------ bounds
MaxPlays == 3
MaxInits == 2
MaxDestroys == 2
MaxEvents == 2

\* ------------------------------------------------------- JavaScript values
Undefined == "undefined"
\* marker for "the object has no own property under this key"
Absent == "absent"
\* what a lookup on a plain object literal yields for a key that is found
\* on Object.prototype (e.g. 'toString'): a function without reset/play
InheritedMember == "Object.prototype member"
ObjectPrototypeKeys == {"toString"}
None == "none"

\* --------------------------------------------------------------- Fox model
VARIABLES
  foxConstructed,  \* TRUE once the Fox constructor has run
  debugFolder,     \* TRUE when DebugGUI.getUI() returned a GUI
  actions,         \* AnimationHolder.actions : property name -> value
  signals,         \* calls issued on AnimationAction objects, in order
  inScene,         \* the model group is in the scene
  playCalls,       \* number of play() calls made so far
  lastPlay         \* the most recent play() call as seen by its caller

\* property names used as inputs of play() and as keys of the dictionary
AnimationNames == {"idle", "walking", "running"}
PropertyNames == AnimationNames \cup {"current", "jump", "toString"}

\* the AnimationAction handles returned by mixer.clipAction for the clips
\* gltf.animations[0..2]
clipAction(i) == CASE i = 0 -> "action0" [] i = 1 -> "action1" [] i = 2 -> "action2"
ActionHandles == {clipAction(0), clipAction(1), clipAction(2)}

\* the duration passed to crossFadeFrom
FadeDuration == 1

\* readonly actions: {[animationName: string]: AnimationAction} = {}
EmptyActions == [k \in PropertyNames |-> Absent]

\* own enumerable keys of the dictionary
Keys(acts) == {k \in PropertyNames : acts[k] # Absent}

\* this.actions[name]: own property, else the prototype chain, else undefined
Lookup(acts, name) ==
  IF acts[name] # Absent THEN acts[name]
  ELSE IF name \in ObjectPrototypeKeys THEN InheritedMember
  ELSE Undefined

\* one recorded call on an AnimationAction
Call(op, target) == [op |-> op, target |-> target, arg |-> None, duration |-> 0, warp |-> FALSE]
CrossFadeFrom(target, from, duration, warp) ==
  [op |-> "crossFadeFrom", target |-> target, arg |-> from, duration |-> duration, warp |-> warp]
\* the assignment this.actions[key] = value, recorded in program order
Assign(key, value) == [op |-> "assign", target |-> value, arg |-> key, duration |-> 0, warp |-> FALSE]

\* ---- mutants of AnimationHolder.play
play_noAssign(acts, name) ==
  LET newAction == Lookup(acts, name)
      oldAction == Lookup(acts, "current")
  IN IF newAction \notin ActionHandles
     THEN [actions |-> acts, calls |-> <<>>, thrown |-> "TypeError"]
     ELSE [actions |-> acts,
           calls |-> << Call("reset", newAction), Call("play", newAction),
                        CrossFadeFrom(newAction, oldAction, FadeDuration, FALSE) >>,
           thrown |-> None]

play_optionalChaining(acts, name) ==
  LET newAction == Lookup(acts, name)
      oldAction == Lookup(acts, "current")
  IN IF newAction \notin ActionHandles
     THEN [actions |-> [acts EXCEPT !["current"] = newAction],
           calls |-> << Assign("current", newAction) >>, thrown |-> None]
     ELSE [actions |-> [acts EXCEPT !["current"] = newAction],
           calls |-> << Call("reset", newAction), Call("play", newAction),
                        CrossFadeFrom(newAction, oldAction, FadeDuration, FALSE),
                        Assign("current", newAction) >>,
           thrown |-> None]

play_assignFirst(acts, name) ==
  LET newAction == Lookup(acts, name)
      oldAction == Lookup(acts, "current")
  IN IF newAction \notin ActionHandles
     THEN [actions |-> acts, calls |-> <<>>, thrown |-> "TypeError"]
     ELSE [actions |-> [acts EXCEPT !["current"] = newAction],
           calls |-> << Assign("current", newAction),
                        Call("play", newAction), Call("reset", newAction),
                        CrossFadeFrom(newAction, oldAction, FadeDuration, FALSE) >>,
           thrown |-> None]

play_swapsEntries(acts, name) ==
  LET newAction == Lookup(acts, name)
      oldAction == Lookup(acts, "current")
  IN IF newAction \notin ActionHandles
     THEN [actions |-> acts, calls |-> <<>>, thrown |-> "TypeError"]
     ELSE [actions |-> [acts EXCEPT ![name] = oldAction, !["current"] = newAction],
           calls |-> << Call("reset", newAction), Call("play", newAction),
                        CrossFadeFrom(newAction, oldAction, FadeDuration, FALSE),
                        Assign("current", newAction) >>,
           thrown |-> None]

\* AnimationHolder.play(name): the dictionary after the call, the calls it
\* issued and what it threw.
\*   newAction.reset() throws a TypeError when newAction is undefined or is
\*   not an AnimationAction, before anything else has happened.
\*   crossFadeFrom(undefined, ..) throws inside the library, after reset and
\*   play were issued (only possible while 'current' is not yet assigned).
play(acts, name) ==
  LET newAction == Lookup(acts, name)
      oldAction == Lookup(acts, "current")
  IN IF newAction \notin ActionHandles
     THEN [actions |-> acts, calls |-> <<>>, thrown |-> "TypeError"]
     ELSE IF oldAction \notin ActionHandles
     THEN [actions |-> acts,
           calls |-> << Call("reset", newAction), Call("play", newAction),
                        CrossFadeFrom(newAction, oldAction, FadeDuration, FALSE) >>,
           thrown |-> "TypeError"]
     ELSE [actions |-> [acts EXCEPT !["current"] = newAction],
           calls |-> << Call("reset", newAction), Call("play", newAction),
                        CrossFadeFrom(newAction, oldAction, FadeDuration, FALSE),
                        Assign("current", newAction) >>,
           thrown |-> None]

\* ---- mutant of Fox.configureAnimation: 'current' is never assigned
configureAnimation_noCurrent(acts) ==
  [actions |-> [acts EXCEPT !["idle"] = clipAction(0),
                            !["walking"] = clipAction(1),
                            !["running"] = clipAction(2)],
   calls |-> <<>>]

\* Fox.configureAnimation: fills the dictionary and starts the idle action
configureAnimation(acts) ==
  LET filled == [acts EXCEPT !["idle"] = clipAction(0),
                             !["walking"] = clipAction(1),
                             !["running"] = clipAction(2)]
      withCurrent == [filled EXCEPT !["current"] = filled["idle"]]
  IN [actions |-> withCurrent,
      calls |-> << Call("play", withCurrent["current"]) >>]

NoPlay == [name |-> None, before |-> EmptyActions, issued |-> 0, thrown |-> None]

FoxInit ==
  /\ foxConstructed = FALSE
  /\ debugFolder = FALSE
  /\ actions = EmptyActions
  /\ signals = <<>>
  /\ inScene = FALSE
  /\ playCalls = 0
  /\ lastPlay = NoPlay

foxVars == <<foxConstructed, debugFolder, actions, signals, inScene, playCalls, lastPlay>>

\* new Fox(scene, resourceLoader): debug folder, holder, configureModel,
\* configureAnimation
FoxConstructor ==
  /\ ~foxConstructed
  /\ \E debugUI \in BOOLEAN : debugFolder' = debugUI
  /\ LET holder == EmptyActions
         configured == configureAnimation(holder)
     IN /\ actions' = configured.actions
        /\ signals' = configured.calls
  /\ inScene' = TRUE
  /\ foxConstructed' = TRUE
  /\ UNCHANGED <<playCalls, lastPlay>>

\* a call animationHolder.play(name) and what its caller observes
PlayStep(name) ==
  /\ foxConstructed
  /\ playCalls < MaxPlays
  /\ LET r == play(actions, name)
     IN /\ actions' = r.actions
        /\ signals' = signals \o r.calls
        /\ lastPlay' = [name |-> name, before |-> actions, issued |-> Len(signals),
                        thrown |-> r.thrown]
  /\ playCalls' = playCalls + 1
  /\ UNCHANGED <<foxConstructed, debugFolder, inScene>>

\* the three debug panel buttons
playIdle == debugFolder /\ PlayStep("idle")
playWalking == debugFolder /\ PlayStep("walking")
playRunning == debugFolder /\ PlayStep("running")

\* play called with an arbitrary property name
PlayCall == \E name \in PropertyNames : PlayStep(name)

\* Fox.destroy(): removes the model group from the scene
FoxDestroy ==
  /\ foxConstructed
  /\ inScene
  /\ inScene' = FALSE
  /\ UNCHANGED <<foxConstructed, debugFolder, actions, signals, playCalls, lastPlay>>

\* ------------------------------------------------------------ viewer model
VARIABLES
  canvasRef,        \* the @ViewChild canvas: "canvas" or undefined
  engine,           \* the engine field: 0 is undefined, else the Engine's id
  engineCount,      \* number of Engine objects constructed so far
  effects,          \* calls made on the Engine and on the services, in order
  timeConsumer,     \* TimeService holds a consumer
  timeLaunched,     \* number of TimeService.launch() calls
  sizeConsumer,     \* ScreenSizeService holds a consumer
  pointerConsumer,  \* PointerService holds a consumer
  initCalls,        \* number of ngOnInit calls made so far
  destroyCalls,     \* number of ngOnDestroy calls made so far
  events,           \* number of events the services have delivered
  lastCall          \* the most recent lifecycle call as seen by its caller

viewerVars == <<canvasRef, engine, engineCount, effects, timeConsumer, timeLaunched,
                sizeConsumer, pointerConsumer, initCalls, destroyCalls, events, lastCall>>

vars == <<foxConstructed, debugFolder, actions, signals, inScene, playCalls, lastPlay,
          canvasRef, engine, engineCount, effects, timeConsumer, timeLaunched,
          sizeConsumer, pointerConsumer, initCalls, destroyCalls, events, lastCall>>

CanvasError == "Canvas should be defined to bootstrap the WebGL Engine"

\* one recorded call: on an Engine (id > 0) or on a service (id = 0)
Effect(op, id) == <<op, id>>

ViewerInit ==
  /\ canvasRef \in {"canvas", Undefined}
  /\ engine = 0
  /\ engineCount = 0
  /\ effects = <<>>
  /\ timeConsumer = FALSE
  /\ timeLaunched = 0
  /\ sizeConsumer = FALSE
  /\ pointerConsumer = FALSE
  /\ initCalls = 0
  /\ destroyCalls = 0
  /\ events = 0
  /\ lastCall = [op |-> None, thrown |-> None]

\* ---- mutants of ngOnInit
\* the canvas check is missing
ngOnInit_noCheck ==
  /\ initCalls < MaxInits
  /\ initCalls' = initCalls + 1
  /\ engine' = engineCount + 1
  /\ engineCount' = engineCount + 1
  /\ effects' = effects \o << Effect("new Engine", engineCount + 1),
                              Effect("timeService.setConsumer", 0),
                              Effect("timeService.launch", 0),
                              Effect("screenSizeService.setConsumer", 0),
                              Effect("pointerService.setConsumer", 0) >>
  /\ timeConsumer' = TRUE
  /\ timeLaunched' = timeLaunched + 1
  /\ sizeConsumer' = TRUE
  /\ pointerConsumer' = TRUE
  /\ lastCall' = [op |-> "ngOnInit", thrown |-> None]
  /\ UNCHANGED <<canvasRef, destroyCalls, events>>
  /\ UNCHANGED foxVars

\* the consumers are registered before the canvas check
ngOnInit_registersFirst ==
  /\ initCalls < MaxInits
  /\ initCalls' = initCalls + 1
  /\ timeConsumer' = TRUE
  /\ sizeConsumer' = TRUE
  /\ pointerConsumer' = TRUE
  /\ IF canvasRef = Undefined
     THEN /\ lastCall' = [op |-> "ngOnInit", thrown |-> CanvasError]
          /\ effects' = effects \o << Effect("timeService.setConsumer", 0),
                                      Effect("screenSizeService.setConsumer", 0),
                                      Effect("pointerService.setConsumer", 0) >>
          /\ UNCHANGED <<engine, engineCount, timeLaunched>>
     ELSE /\ engine' = engineCount + 1
          /\ engineCount' = engineCount + 1
          /\ effects' = effects \o << Effect("timeService.setConsumer", 0),
                                      Effect("screenSizeService.setConsumer", 0),
                                      Effect("pointerService.setConsumer", 0),
                                      Effect("new Engine", engineCount + 1),
                                      Effect("timeService.launch", 0) >>
          /\ timeLaunched' = timeLaunched + 1
          /\ lastCall' = [op |-> "ngOnInit", thrown |-> None]
  /\ UNCHANGED <<canvasRef, destroyCalls, events>>
  /\ UNCHANGED foxVars

\* the tick loop is launched before the time consumer is registered
ngOnInit_launchFirst ==
  /\ initCalls < MaxInits
  /\ initCalls' = initCalls + 1
  /\ IF canvasRef = Undefined
     THEN /\ lastCall' = [op |-> "ngOnInit", thrown |-> CanvasError]
          /\ UNCHANGED <<engine, engineCount, effects, timeConsumer, timeLaunched,
                         sizeConsumer, pointerConsumer>>
     ELSE /\ engine' = engineCount + 1
          /\ engineCount' = engineCount + 1
          /\ effects' = effects \o << Effect("new Engine", engineCount + 1),
                                      Effect("timeService.launch", 0),
                                      Effect("timeService.setConsumer", 0),
                                      Effect("screenSizeService.setConsumer", 0),
                                      Effect("pointerService.setConsumer", 0) >>
          /\ timeConsumer' = TRUE
          /\ timeLaunched' = timeLaunched + 1
          /\ sizeConsumer' = TRUE
          /\ pointerConsumer' = TRUE
          /\ lastCall' = [op |-> "ngOnInit", thrown |-> None]
  /\ UNCHANGED <<canvasRef, destroyCalls, events>>
  /\ UNCHANGED foxVars

\* ThreeViewerComponent.ngOnInit()
ngOnInit ==
  /\ initCalls < MaxInits
  /\ initCalls' = initCalls + 1
  /\ IF canvasRef = Undefined
     THEN /\ lastCall' = [op |-> "ngOnInit", thrown |-> CanvasError]
          /\ UNCHANGED <<engine, engineCount, effects, timeConsumer, timeLaunched,
                         sizeConsumer, pointerConsumer>>
     ELSE /\ engine' = engineCount + 1
          /\ engineCount' = engineCount + 1
          /\ effects' = effects \o << Effect("new Engine", engineCount + 1),
                                      Effect("timeService.setConsumer", 0),
                                      Effect("timeService.launch", 0),
                                      Effect("screenSizeService.setConsumer", 0),
                                      Effect("pointerService.setConsumer", 0) >>
          /\ timeConsumer' = TRUE
          /\ timeLaunched' = timeLaunched + 1
          /\ sizeConsumer' = TRUE
          /\ pointerConsumer' = TRUE
          /\ lastCall' = [op |-> "ngOnInit", thrown |-> None]
  /\ UNCHANGED <<canvasRef, destroyCalls, events>>
  /\ UNCHANGED foxVars

\* ThreeViewerComponent.ngOnDestroy(): this.engine?.destroy()
ngOnDestroy ==
  /\ destroyCalls < MaxDestroys
  /\ destroyCalls' = destroyCalls + 1
  /\ effects' = IF engine # 0 THEN Append(effects, Effect("engine.destroy", engine))
                ELSE effects
  /\ lastCall' = [op |-> "ngOnDestroy", thrown |-> None]
  /\ UNCHANGED <<canvasRef, engine, engineCount, timeConsumer, timeLaunched,
                 sizeConsumer, pointerConsumer, initCalls, events>>
  /\ UNCHANGED foxVars

\* the body of a registered consumer: this.engine?.<method>(payload)
Forward(method) ==
  effects' = IF engine # 0 THEN Append(effects, Effect(method, engine)) ELSE effects

\* (experienceTime) => this.engine?.update(experienceTime)
timeCallback == Forward("engine.update")
\* (size) => this.engine?.resize(size)
sizeCallback == Forward("engine.resize")
\* (pointerEvent) => this.engine?.reactToPointer(pointerEvent)
pointerCallback == Forward("engine.reactToPointer")

\* an event source invokes its registered consumer when its event occurs
Deliver(registered, callback) ==
  /\ registered
  /\ events < MaxEvents
  /\ events' = events + 1
  /\ callback
  /\ UNCHANGED <<canvasRef, engine, engineCount, timeConsumer, timeLaunched,
                 sizeConsumer, pointerConsumer, initCalls, destroyCalls, lastCall>>
  /\ UNCHANGED foxVars

\* the tick loop runs once launched
TimeTick == timeLaunched > 0 /\ Deliver(timeConsumer, timeCallback)
ScreenResize == Deliver(sizeConsumer, sizeCallback)
PointerEvent == Deliver(pointerConsumer, pointerCallback)

\* ---------------------------------------------------------- specifications
Init == FoxInit /\ ViewerInit

NextFox ==
  \/ FoxConstructor /\ UNCHANGED viewerVars
  \/ playIdle /\ UNCHANGED viewerVars
  \/ playWalking /\ UNCHANGED viewerVars
  \/ playRunning /\ UNCHANGED viewerVars
  \/ PlayCall /\ UNCHANGED viewerVars
  \/ FoxDestroy /\ UNCHANGED viewerVars

NextViewer ==
  \/ ngOnInit
  \/ ngOnDestroy
  \/ TimeTick
  \/ ScreenResize
  \/ PointerEvent

Next == NextFox \/ NextViewer

SpecFox == Init /\ [][NextFox]_vars
SpecViewer == Init /\ [][NextViewer]_vars
Spec == Init /\ [][Next]_vars

\* -------------------------------------------------------------- properties
\* the calls the most recent play() issued
LastCalls == SubSeq(signals, lastPlay.issued + 1, Len(signals))

\* the signals an action receives from a sequence of calls; the two ends of
\* a crossFadeFrom call are the fade-in (its target) and the fade-out (its
\* argument)
SignalsTo(h, calls) ==
  {calls[i].op : i \in {j \in DOMAIN calls : calls[j].target = h /\ calls[j].op \in {"reset", "play", "stop"}}}
  \cup {"crossFadeIn" : i \in {j \in DOMAIN calls : calls[j].op = "crossFadeFrom" /\ calls[j].target = h}}
  \cup {"crossFadeOut" : i \in {j \in DOMAIN calls : calls[j].op = "crossFadeFrom" /\ calls[j].arg = h}}

NumEffects(e) == Cardinality({i \in DOMAIN effects : effects[i] = e})

ForwardOps == {"engine.update", "engine.resize", "engine.reactToPointer"}

\* C1: destruction is idempotent: however often ngOnDestroy is called, each
\* engine receives destroy at most once in total (a second or later call
\* releases nothing).
C1_DestroyOnce ==
  \A id \in 1..engineCount : NumEffects(Effect("engine.destroy", id)) <= 1

\* C2: play(name) with a name that is not a key of the mapping throws, and
\* leaves every entry (current and named) as it was and issues no reset,
\* play or cross-fade.
C2_PlayUnknownNameFails ==
  (lastPlay.name # None /\ lastPlay.before[lastPlay.name] = Absent)
    => /\ lastPlay.thrown # None
       /\ actions = lastPlay.before
       /\ LastCalls = <<>>

C2_Witness ==
  /\ lastPlay.name = "jump"
  /\ lastPlay.before["current"] = clipAction(1)
  /\ lastPlay.thrown = "TypeError"

\* C3: ngOnInit without a canvas throws the canvas error and constructs no
\* engine: the engine field stays undefined.
C3_InitWithoutCanvasFails ==
  canvasRef = Undefined
    => /\ engine = 0
       /\ engineCount = 0
       /\ NumEffects(Effect("new Engine", 1)) = 0
       /\ lastCall.op = "ngOnInit" => lastCall.thrown = CanvasError

C3_Witness ==
  /\ canvasRef = Undefined
  /\ lastCall.op = "ngOnInit"
  /\ lastCall.thrown = CanvasError

\* C4: once ngOnDestroy has released an engine, no later tick, resize or
\* pointer event is forwarded to that engine.
C4_NoForwardAfterDestroy ==
  \A i \in DOMAIN effects : \A j \in DOMAIN effects :
    (i < j /\ effects[i][1] = "engine.destroy")
      => ~(effects[j][1] \in ForwardOps /\ effects[j][2] = effects[i][2])

\* C5: after play(name) with a name that is a key of the mapping, 'current'
\* is the action that was registered under name.
C5_PlaySetsCurrent ==
  (lastPlay.name # None /\ lastPlay.before[lastPlay.name] # Absent)
    => /\ lastPlay.thrown = None
       /\ actions["current"] = lastPlay.before[lastPlay.name]

C5_Witness ==
  /\ lastPlay.name = "walking"
  /\ lastPlay.before["current"] = clipAction(2)
  /\ actions["current"] = clipAction(1)

\* C6: once the Fox is constructed, 'current' is defined and is one of the
\* actions stored under idle, walking or running.
C6_CurrentIsValidEntry ==
  foxConstructed
    => /\ actions["current"] \in ActionHandles
       /\ actions["current"] \in {actions[n] : n \in AnimationNames}

C6_Witness ==
  /\ foxConstructed
  /\ playCalls >= 2
  /\ lastPlay.name = "running"
  /\ actions["current"] = clipAction(2)

\* the order of the signals of a successful play: reset, play, cross-fade
\* from the previous current action over 1 second, then the assignment of
\* 'current'; play never stops an action
PlayOrder ==
  (lastPlay.name # None /\ lastPlay.thrown = None)
    => LET newAction == lastPlay.before[lastPlay.name]
           oldAction == lastPlay.before["current"]
       IN /\ LastCalls = << Call("reset", newAction), Call("play", newAction),
                            CrossFadeFrom(newAction, oldAction, 1, FALSE),
                            Assign("current", newAction) >>
          /\ actions["current"] = newAction
          /\ {"reset", "play"} \subseteq SignalsTo(newAction, LastCalls)
          /\ \A i \in DOMAIN signals : signals[i].op # "stop"

\* C7 (as claimed): play issues reset, play, cross-fade (1 second), then
\* updates 'current', and the previous current action receives only the
\* cross-fade-out signal.
C7_PreviousOnlyFadesOut ==
  /\ PlayOrder
  /\ (lastPlay.name # None /\ lastPlay.thrown = None)
       => SignalsTo(lastPlay.before["current"], LastCalls) = {"crossFadeOut"}

\* C7 (amended): play issues reset, play, cross-fade (1 second), then
\* updates 'current'; the previous current action receives only the
\* cross-fade-out signal when it is not the action being started, and
\* receives reset, play and both ends of the cross-fade when it is.
C7_PlayOrderAmended ==
  /\ PlayOrder
  /\ (lastPlay.name # None /\ lastPlay.thrown = None)
       => LET newAction == lastPlay.before[lastPlay.name]
              oldAction == lastPlay.before["current"]
          IN IF oldAction # newAction
             THEN SignalsTo(oldAction, LastCalls) = {"crossFadeOut"}
             ELSE SignalsTo(oldAction, LastCalls)
                    = {"reset", "play", "crossFadeIn", "crossFadeOut"}

C7_Witness ==
  /\ lastPlay.name = "running"
  /\ lastPlay.before["current"] = clipAction(0)
  /\ lastPlay.before["current"] = lastPlay.before["idle"]
  /\ actions["current"] = clipAction(2)
  /\ SignalsTo(clipAction(0), LastCalls) = {"crossFadeOut"}

\* the calls one successful ngOnInit makes, in program order
InitBlock(id) ==
  << Effect("new Engine", id), Effect("timeService.setConsumer", 0),
     Effect("timeService.launch", 0), Effect("screenSizeService.setConsumer", 0),
     Effect("pointerService.setConsumer", 0) >>

RECURSIVE InitBlocks(_)
InitBlocks(n) == IF n = 0 THEN <<>> ELSE InitBlocks(n - 1) \o InitBlock(n)

IsWiring(e) == e[1] \notin (ForwardOps \cup {"engine.destroy"})

\* C8: each successful ngOnInit constructs one engine, then registers the
\* time consumer, launches the time source once, and registers the resize
\* and pointer consumers; the time source is never running without a
\* consumer and an engine.
C8_InitWiring ==
  canvasRef # Undefined
    => /\ SelectSeq(effects, IsWiring) = InitBlocks(initCalls)
       /\ engineCount = initCalls
       /\ timeLaunched = initCalls
       /\ engine = engineCount
       /\ timeLaunched > 0 => (timeConsumer /\ engine # 0)
       /\ initCalls > 0 => (timeConsumer /\ sizeConsumer /\ pointerConsumer)
       /\ \A i \in DOMAIN effects :
            effects[i] = Effect("timeService.launch", 0)
              => \E j \in 1..(i - 1) : \E k \in 1..(j - 1) :
                   /\ effects[j] = Effect("timeService.setConsumer", 0)
                   /\ effects[k][1] = "new Engine"

C8_Witness ==
  /\ canvasRef = "canvas"
  /\ lastCall = [op |-> "ngOnInit", thrown |-> None]
  /\ initCalls = 1
  /\ effects = InitBlock(1)

\* C9: play changes only 'current': idle, walking and running keep the
\* handles assigned at construction and the set of keys does not change.
C9_PlayChangesOnlyCurrent ==
  foxConstructed
    => /\ Keys(actions) = AnimationNames \cup {"current"}
       /\ actions["idle"] = clipAction(0)
       /\ actions["walking"] = clipAction(1)
       /\ actions["running"] = clipAction(2)
       /\ lastPlay.name # None
            => \A k \in PropertyNames \ {"current"} : actions[k] = lastPlay.before[k]

C9_Witness ==
  /\ lastPlay.name = "current"
  /\ lastPlay.thrown = None
  /\ lastPlay.before["current"] = clipAction(1)
  /\ Len(LastCalls) = 4
  /\ LastCalls[3].arg = LastCalls[3].target

\* C10: a failed ngOnInit registers no consumer and does not launch the time
\* source; the viewer stays uninitialized and a later ngOnDestroy releases
\* nothing and raises no error.
C10_FailedInitNoSideEffect ==
  canvasRef = Undefined
    => /\ effects = <<>>
       /\ ~timeConsumer /\ ~sizeConsumer /\ ~pointerConsumer
       /\ timeLaunched = 0
       /\ engine = 0
       /\ lastCall.op = "ngOnDestroy" => lastCall.thrown = None

C10_Witness ==
  /\ canvasRef = Undefined
  /\ initCalls >= 1
  /\ lastCall = [op |-> "ngOnDestroy", thrown |-> None]
  /\ effects = <<>>

====
